---- MODULE Spec2Model ----
(***************************************************************************)
(* Model of the radar HDF5 -> GeoTIFF converter.                           *)
(*   src/menu.py : the archive crawler (process_until_caught_up)           *)
(*   src/main.py : apply_colour_thresholds and process_radar_file          *)
(*                                                                         *)
(* An archive key "radar/<year>/<month>/<day>/<base>.<ext>" is the tuple   *)
(* <<year, month, day, base, ext>> of the lexical ranks of its parts, so   *)
(* that Python's string comparison of two keys (or two prefixes of the     *)
(* same level) is the lexicographic comparison of the tuples.  A prefix    *)
(* "radar/", "radar/<y>/", ... is the tuple of the parts it fixes.         *)
(* Rainfall values are in thousandths of a millimetre (0.01 mm = 10).      *)
(***************************************************************************)
EXTENDS Integers, Sequences, FiniteSets, TLC

\* ------------------------------------------------------------------ bounds
\* Largest number of objects in the remote archive (single crawl).
MaxKeys == 3
\* Largest number of objects in the remote archive (two consecutive crawls).
MaxKeysTwice == 2
\* Largest number of rows of an observation grid.
MaxHeight == 1

\* Day partitions that may occur: they differ in the day, the month and the
\* year, so a traversal crosses every kind of boundary.
DayUniverse == { <<1, 1, 1>>, <<1, 1, 2>>, <<1, 2, 1>>, <<2, 1, 1>> }
\* Base names of the files; the same base name may occur in several days.
Bases == {1, 2, 3}
\* Objects that may occur in the archive: every base name as .h5 in every
\* day, and one object that is not an .h5 file.  The extension is its
\* lexical rank: ".h5" is 1 and sorts before ".txt", which is 2.
KeyUniverse ==
    { d \o <<b, 1>> : d \in DayUniverse, b \in Bases }
        \cup { <<1, 1, 2, 1, 2>> }

RADAR == << >>
Modes == {"greyscale", "coloured"}
NoKey == << >>

VARIABLES
    archive,          \* the remote bucket: a set of keys
    out,              \* output_folder: the <base>_<mode>.tif files in it
    temp_tif,         \* whether output_folder/temp_output.tif exists
    colour,           \* parameter of process_until_caught_up
    stop_on_catchup,  \* parameter of process_until_caught_up
    pc,               \* position of the crawl
    years, months, days, files,   \* what is left of each for-loop's list
    key,              \* the loop variable of the innermost loop
    any_new_files,
    run,              \* "first" or "second" invocation on this folder
    prev,             \* how the earlier invocation ended and its flag
    out0,             \* output_folder as it was when this crawl started
    checked,          \* keys given to processed_file_exists, in order
    downloaded,       \* keys given to s3.download_file that arrived
    converted,        \* keys for which process_radar_file returned
    visited,          \* day prefixes given to list_files
    failed,           \* the key whose download or conversion raised
    data,             \* the observation grid handed to the classifier
    rgba              \* the colour grid it returned (empty before)

vars == << archive, out, temp_tif, colour, stop_on_catchup, pc, years,
           months, days, files, key, any_new_files, run, prev, out0,
           checked, downloaded, converted, visited, failed, data, rgba >>

\* ------------------------------------------------------- strings and lists
\* a < b for two strings (tuples of ranks) as Python compares them.
RECURSIVE LexLess(_, _)
LexLess(a, b) ==
    IF b = << >> THEN FALSE
    ELSE IF a = << >> THEN TRUE
    ELSE IF Head(a) # Head(b) THEN Head(a) < Head(b)
    ELSE LexLess(Tail(a), Tail(b))

\* sorted(S, reverse=True)
RECURSIVE SortedReverse(_)
SortedReverse(S) ==
    IF S = {} THEN << >>
    ELSE LET m == CHOOSE x \in S : \A y \in S : y = x \/ LexLess(y, x)
         IN  <<m>> \o SortedReverse(S \ {m})

\* sorted(S): the ascending list.
RECURSIVE SortedForward(_)
SortedForward(S) ==
    IF S = {} THEN << >>
    ELSE LET m == CHOOSE x \in S : \A y \in S : y = x \/ LexLess(x, y)
         IN  <<m>> \o SortedForward(S \ {m})

StartsWith(k, prefix) ==
    /\ Len(prefix) <= Len(k)
    /\ SubSeq(k, 1, Len(prefix)) = prefix

EndsWithH5(k) == k[5] = 1
BaseName(k) == k[4]

\* A list_prefixes that forgets reverse=True.
list_prefixes_ascending(prefix) ==
    SortedForward({ SubSeq(k, 1, Len(prefix) + 1) :
                        k \in { x \in archive : StartsWith(x, prefix) } })

list_prefixes(prefix) ==
    SortedReverse({ SubSeq(k, 1, Len(prefix) + 1) :
                        k \in { x \in archive : StartsWith(x, prefix) } })

\* A list_files that keeps every object of the day.
list_files_unfiltered(prefix) ==
    SortedReverse({ k \in archive : StartsWith(k, prefix) })

list_files(prefix) ==
    SortedReverse({ k \in archive : StartsWith(k, prefix) /\ EndsWithH5(k) })

\* ------------------------------------------------------- the output folder
\* A file <base>_<mode>.tif: src is the key it was converted from (NoKey for
\* a file that was there before the first crawl), complete is whether the
\* write that made it finished, by names the crawl that wrote it.
OutFile(b, m, s, c, r) ==
    [base |-> b, mode |-> m, src |-> s, complete |-> c, by |-> r]

Exists(folder, b, m) == \E f \in folder : f.base = b /\ f.mode = m

\* rasterio.open(path, "w"): the file of that name is created or replaced.
WriteFile(folder, f) ==
    { g \in folder : ~(g.base = f.base /\ g.mode = f.mode) } \cup {f}

\* A check that knows the greyscale name only.
processed_file_exists_grey_only(k, folder) ==
    Exists(folder, BaseName(k), "greyscale")

processed_file_exists(k, folder) ==
    \/ Exists(folder, BaseName(k), "greyscale")
    \/ Exists(folder, BaseName(k), "coloured")

ModeOf(c) == IF c THEN "coloured" ELSE "greyscale"

\* --------------------------------------------------------------- the crawl
InitialFolders ==
    { { OutFile(b, rec[b], NoKey, TRUE, "before") :
            b \in { x \in Bases : rec[x] # "none" } } :
        rec \in [Bases -> Modes \cup {"none"}] }

InitCrawl(maxKeys) ==
    /\ archive \in { A \in SUBSET KeyUniverse : Cardinality(A) <= maxKeys }
    /\ out \in InitialFolders
    /\ temp_tif = FALSE
    /\ colour = FALSE
    /\ stop_on_catchup = FALSE
    /\ pc = "idle"
    /\ years = << >> /\ months = << >> /\ days = << >> /\ files = << >>
    /\ key = NoKey
    /\ any_new_files = FALSE
    /\ run = "first"
    /\ prev = [result |-> "none", stop |-> FALSE]
    /\ out0 = out
    /\ checked = << >> /\ downloaded = << >> /\ converted = << >>
    /\ visited = {}
    /\ failed = NoKey
    /\ data = << >>
    /\ rgba = << >>

\* process_until_caught_up(output_folder, colour=c, stop_on_catchup=s) up to
\* the first for-loop.
Enter(c, s) ==
    /\ colour' = c
    /\ stop_on_catchup' = s
    /\ any_new_files' = FALSE
    /\ years' = list_prefixes(RADAR)
    /\ months' = << >> /\ days' = << >> /\ files' = << >>
    /\ key' = NoKey
    /\ pc' = "years"
    /\ out0' = out
    /\ checked' = << >> /\ downloaded' = << >> /\ converted' = << >>
    /\ visited' = {}
    /\ failed' = NoKey
    /\ UNCHANGED << archive, out, temp_tif, data, rgba >>

Start ==
    /\ pc = "idle"
    /\ \E c \in BOOLEAN, s \in BOOLEAN : Enter(c, s)
    /\ UNCHANGED << run, prev >>

\* The program is run again on the same archive and output folder.
Restart ==
    /\ pc \in {"done", "aborted"}
    /\ run = "first"
    /\ run' = "second"
    /\ prev' = [result |-> pc, stop |-> stop_on_catchup]
    /\ \E c \in BOOLEAN, s \in BOOLEAN : Enter(c, s)

\* for year in years:
YearLoop ==
    /\ pc = "years"
    /\ IF years = << >>
       THEN /\ pc' = "done"
            /\ UNCHANGED << years, months >>
       ELSE /\ months' = list_prefixes(Head(years))
            /\ years' = Tail(years)
            /\ pc' = "months"
    /\ UNCHANGED << archive, out, temp_tif, colour, stop_on_catchup, days,
                    files, key, any_new_files, run, prev, out0, checked,
                    downloaded, converted, visited, failed, data, rgba >>

\* for month in months:
MonthLoop ==
    /\ pc = "months"
    /\ IF months = << >>
       THEN /\ pc' = "years"
            /\ UNCHANGED << months, days >>
       ELSE /\ days' = list_prefixes(Head(months))
            /\ months' = Tail(months)
            /\ pc' = "days"
    /\ UNCHANGED << archive, out, temp_tif, colour, stop_on_catchup, years,
                    files, key, any_new_files, run, prev, out0, checked,
                    downloaded, converted, visited, failed, data, rgba >>

\* for day in days: files = list_files(day)
DayLoop ==
    /\ pc = "days"
    /\ IF days = << >>
       THEN /\ pc' = "months"
            /\ UNCHANGED << days, files, visited >>
       ELSE /\ files' = list_files(Head(days))
            /\ visited' = visited \cup {Head(days)}
            /\ days' = Tail(days)
            /\ pc' = "files"
    /\ UNCHANGED << archive, out, temp_tif, colour, stop_on_catchup, years,
                    months, key, any_new_files, run, prev, out0, checked,
                    downloaded, converted, failed, data, rgba >>

\* A crawl that leaves only the current day's loop when it has caught up.
AfterAlreadyProcessedBreak == IF stop_on_catchup THEN "days" ELSE "files"

\* if stop_on_catchup: return, else: continue
AfterAlreadyProcessed == IF stop_on_catchup THEN "done" ELSE "files"

\* for key in files: if processed_file_exists(key, output_folder): ...
CheckFile ==
    /\ pc = "files"
    /\ IF files = << >>
       THEN /\ pc' = "days"
            /\ UNCHANGED << files, key, checked, any_new_files >>
       ELSE /\ key' = Head(files)
            /\ files' = Tail(files)
            /\ checked' = Append(checked, Head(files))
            /\ IF processed_file_exists(Head(files), out)
               THEN /\ pc' = AfterAlreadyProcessed
                    /\ UNCHANGED any_new_files
               ELSE /\ any_new_files' = TRUE
                    /\ pc' = "download"
    /\ UNCHANGED << archive, out, temp_tif, colour, stop_on_catchup, years,
                    months, days, run, prev, out0, downloaded, converted,
                    visited, failed, data, rgba >>

\* A crawl that logs the failure and goes on with the next file.
OnFailureContinue ==
    /\ failed' = key
    /\ pc' = "files"

\* What the crawl does when a download or a conversion raises: nothing catches the
\* exception, which ends process_until_caught_up.
OnFailure ==
    /\ failed' = key
    /\ pc' = "aborted"

\* s3.download_file(bucket_name, key, local_path)
Download ==
    /\ pc = "download"
    /\ \E arrives \in BOOLEAN :
          IF arrives
          THEN /\ downloaded' = Append(downloaded, key)
               /\ pc' = "convert"
               /\ UNCHANGED failed
          ELSE /\ OnFailure
               /\ UNCHANGED downloaded
    /\ UNCHANGED << archive, out, temp_tif, colour, stop_on_catchup, years,
                    months, days, files, key, any_new_files, run, prev, out0,
                    checked, converted, visited, data, rgba >>

\* process_radar_file(local_path, output_folder, colour, output_filename)
\* with output_filename = <base>_<mode>.tif.  It ends in one of four ways:
\*   "read"   reading the container raises: no file is touched;
\*   "temp"   writing temp_output.tif raises: the file may have been created;
\*   "final"  temp_output.tif is written and writing the final raster
\*            raises: the final file may have been created, unfinished;
\*   "ok"     both are written, temp_output.tif is removed.
process_radar_file(how) ==
    LET final(c) == OutFile(BaseName(key), ModeOf(colour), key, c, run)
    IN  CASE how = "read" ->
               /\ UNCHANGED << out, temp_tif, converted >>
               /\ OnFailure
          [] how = "temp" ->
               /\ temp_tif' \in {temp_tif, TRUE}
               /\ UNCHANGED << out, converted >>
               /\ OnFailure
          [] how = "final" ->
               /\ temp_tif' = TRUE
               /\ out' \in {out, WriteFile(out, final(FALSE))}
               /\ UNCHANGED converted
               /\ OnFailure
          [] how = "ok" ->
               /\ out' = WriteFile(out, final(TRUE))
               /\ temp_tif' = FALSE
               /\ converted' = Append(converted, key)
               /\ pc' = "files"
               /\ UNCHANGED failed

Convert ==
    /\ pc = "convert"
    /\ \E how \in {"read", "temp", "final", "ok"} : process_radar_file(how)
    /\ UNCHANGED << archive, colour, stop_on_catchup, years, months, days,
                    files, key, any_new_files, run, prev, out0, checked,
                    downloaded, visited, data, rgba >>

Crawl ==
    \/ YearLoop
    \/ MonthLoop
    \/ DayLoop
    \/ CheckFile
    \/ Download
    \/ Convert

Init == InitCrawl(MaxKeys)
Next == Start \/ Crawl
Spec == Init /\ [][Next]_vars

InitTwice == InitCrawl(MaxKeysTwice)
NextTwice == Start \/ Restart \/ Crawl
SpecTwice == InitTwice /\ [][NextTwice]_vars

\* ----------------------------------------------------- the colour classifier
\* A sample is a number of thousandths of a millimetre, or not a number.
Num(n) == [nan |-> FALSE, v |-> n]
NaN == [nan |-> TRUE, v |-> 0]
Samples ==
    { Num(n) : n \in { -1000, -1, 0, 1, 9, 10, 300, 499, 500, 999, 1000,
                       1500, 1999, 2000, 3999, 4000, 7999, 8000, 15999,
                       16000, 31999, 32000, 35000 } } \cup {NaN}
Widths == {1, 2}
Grids ==
    UNION { [ (1..h) \X (1..w) -> Samples ] : h \in 1..MaxHeight, w \in Widths }

\* numpy's comparisons: every comparison with NaN is False.
Ge(x, t) == ~x.nan /\ x.v >= t
Lt(x, t) == ~x.nan /\ x.v < t
Le(x, t) == ~x.nan /\ x.v <= t

\* The eight colour(...) calls in the order of the code;
\* open marks the last one, whose mask has no upper limit.
Bands ==
    << [lo |-> 10,    hi |-> 500,   open |-> FALSE, rgb |-> <<0, 0, 254>>],
       [lo |-> 500,   hi |-> 1000,  open |-> FALSE, rgb |-> <<50, 101, 254>>],
       [lo |-> 1000,  hi |-> 2000,  open |-> FALSE, rgb |-> <<127, 127, 0>>],
       [lo |-> 2000,  hi |-> 4000,  open |-> FALSE, rgb |-> <<254, 203, 0>>],
       [lo |-> 4000,  hi |-> 8000,  open |-> FALSE, rgb |-> <<254, 152, 0>>],
       [lo |-> 8000,  hi |-> 16000, open |-> FALSE, rgb |-> <<254, 0, 0>>],
       [lo |-> 16000, hi |-> 32000, open |-> FALSE, rgb |-> <<254, 0, 254>>],
       [lo |-> 32000, hi |-> 32000, open |-> TRUE,  rgb |-> <<229, 254, 254>>] >>

\* A mask written (data > lo) & (data < hi).
BandMaskExclusiveLow(band, d) ==
    { c \in DOMAIN d :
        /\ ~d[c].nan /\ d[c].v > band.lo
        /\ (band.open \/ Lt(d[c], band.hi)) }

\* A mask written (data >= lo) & (data <= hi).
BandMaskInclusiveHigh(band, d) ==
    { c \in DOMAIN d : Ge(d[c], band.lo) /\ (band.open \/ Le(d[c], band.hi)) }

\* (data >= lo) & (data < hi), or (data >= lo) for the last band.
BandMask(band, d) ==
    { c \in DOMAIN d : Ge(d[c], band.lo) /\ (band.open \/ Lt(d[c], band.hi)) }

\* rgba[mask] = pixel
Assign(grid, mask, pixel) ==
    [ c \in DOMAIN grid |-> IF c \in mask THEN pixel ELSE grid[c] ]

\* The colour(...) calls from the i-th on, applied to grid in order.
RECURSIVE ColourFrom(_, _, _)
ColourFrom(i, grid, d) ==
    IF i > Len(Bands) THEN grid
    ELSE ColourFrom(i + 1,
                    Assign(grid, BandMask(Bands[i], d),
                           Bands[i].rgb \o <<255>>),
                    d)

apply_colour_thresholds(d) ==
    LET zeros == [ c \in DOMAIN d |-> <<0, 0, 0, 0>> ]
        banded == ColourFrom(1, zeros, d)
    IN  Assign(banded, { c \in DOMAIN d : Le(d[c], 0) }, <<0, 0, 0, 0>>)

InitColour ==
    /\ archive = {}
    /\ out = {}
    /\ temp_tif = FALSE
    /\ colour = TRUE
    /\ stop_on_catchup = FALSE
    /\ pc = "classify"
    /\ years = << >> /\ months = << >> /\ days = << >> /\ files = << >>
    /\ key = NoKey
    /\ any_new_files = FALSE
    /\ run = "first"
    /\ prev = [result |-> "none", stop |-> FALSE]
    /\ out0 = {}
    /\ checked = << >> /\ downloaded = << >> /\ converted = << >>
    /\ visited = {}
    /\ failed = NoKey
    /\ data \in Grids
    /\ rgba = << >>

\* rgba_data = apply_colour_thresholds(data)
Classify ==
    /\ pc = "classify"
    /\ rgba' = apply_colour_thresholds(data)
    /\ pc' = "classified"
    /\ UNCHANGED << archive, out, temp_tif, colour, stop_on_catchup, years,
                    months, days, files, key, any_new_files, run, prev, out0,
                    checked, downloaded, converted, visited, failed, data >>

NextColour == Classify
SpecColour == InitColour /\ [][NextColour]_vars

\* ------------------------------------------------------------------ claims
Range(q) == { q[i] : i \in 1..Len(q) }
NoRepeat(q) == \A i, j \in 1..Len(q) : i # j => q[i] # q[j]

\* The .h5 objects of the archive and its day partitions.
H5Keys == { k \in archive : k[5] = 1 }
ArchiveDays == { SubSeq(k, 1, 3) : k \in archive }
\* The keys a most-recent-first traversal reaches before k.
Before(k) == { j \in H5Keys : LexLess(k, j) }
\* Whether a file <base>_greyscale.tif or <base>_coloured.tif of k's base
\* name is in the folder.
HasRecord(k, folder) == \E f \in folder : f.base = k[4]
\* k has a Conversion Record when a traversal that converted every key
\* before it reaches it: the record was there when the crawl started, or an
\* earlier key of the crawl has the same base name.
RecordedWhenReached(k) ==
    HasRecord(k, out0) \/ \E j \in Before(k) : j[4] = k[4]
\* The keys that have a record when such a traversal reaches them.
Recorded == { k \in H5Keys : RecordedWhenReached(k) }
\* The first already-recorded key of the traversal (none or one): no
\* recorded key is reached before it.
FirstRecorded ==
    LET rec == Recorded
    IN  { k \in rec : \A j \in rec : j = k \/ LexLess(j, k) }
\* The keys the traversal reaches before its first already-recorded key.
BeforeFirstRecorded ==
    LET rec == Recorded
    IN  { k \in H5Keys : \A j \in rec : LexLess(j, k) }
\* The output file a completed conversion of k in this crawl leaves.
RecordOf(k) == OutFile(k[4], ModeOf(colour), k, TRUE, run)
Crawling == pc \notin {"idle", "classify", "classified"}

\* C1 as stated: with stop_on_catchup the crawl converts exactly the keys
\* before the first already-recorded key and then terminates, and no key at
\* or after that key is ever checked, downloaded or converted.
C1_CatchUpAsStated ==
    (Crawling /\ stop_on_catchup) =>
        LET before == BeforeFirstRecorded
            touched == Range(checked) \cup Range(downloaded) \cup Range(converted)
        IN  /\ touched \subseteq before
            /\ pc \in {"done", "aborted"} =>
                   /\ Range(downloaded) = before
                   /\ Range(converted) = before

\* C1 as amended: with stop_on_catchup, only keys before the first
\* already-recorded key are ever downloaded or converted; that key itself is
\* checked (the check is what ends the crawl) and no key after it is; no day
\* older than its day is visited; and a crawl that ends without a download or
\* conversion failure has downloaded and converted exactly the keys before it.
C1_CatchUpShortCircuit ==
    (Crawling /\ stop_on_catchup) =>
        LET before == BeforeFirstRecorded
            first == FirstRecorded
        IN  /\ Range(downloaded) \subseteq before
            /\ Range(converted) \subseteq before
            /\ Range(checked) \subseteq before \cup first
            /\ \A k \in first : \A d \in visited :
                   ~LexLess(d, SubSeq(k, 1, 3))
            /\ pc = "done" =>
                   /\ Range(downloaded) = before
                   /\ Range(converted) = before
                   /\ Range(checked) = before \cup first
                   /\ \A k \in before : RecordOf(k) \in out
                   /\ \A k \in first :
                          visited =
                              { d \in ArchiveDays :
                                    ~LexLess(d, SubSeq(k, 1, 3)) }

\* Records for the middle day only: the newest day is converted, the crawl
\* ends at the middle day and the oldest day is never visited.
C1_Witness ==
    /\ stop_on_catchup
    /\ pc = "done"
    /\ Cardinality(ArchiveDays) = 3
    /\ Len(converted) = 1
    /\ Len(checked) = 2
    /\ HasRecord(checked[2], out0)
    /\ Cardinality(visited) = 2
    /\ \E k \in H5Keys : k \notin Range(checked) /\ ~HasRecord(k, out)

\* C2: without stop_on_catchup, a crawl that reaches Done has visited every
\* day, checked every .h5 key, downloaded and converted exactly the keys that
\* had no record when checked, skipped the others, and every .h5 key has a
\* record; at every point only keys without a record are downloaded.
C2_FullBackfill ==
    (Crawling /\ ~stop_on_catchup) =>
        /\ \A k \in Range(downloaded) : k \in H5Keys /\ ~RecordedWhenReached(k)
        /\ \A k \in Range(converted) : RecordOf(k) \in out
        /\ pc = "done" =>
               /\ visited = ArchiveDays
               /\ Range(checked) = H5Keys
               /\ Range(downloaded) = H5Keys \ Recorded
               /\ Range(converted) = Range(downloaded)
               /\ \A k \in H5Keys : HasRecord(k, out)
               /\ \A f \in out0 : f \in out

C2_Witness ==
    /\ ~stop_on_catchup
    /\ pc = "done"
    /\ Cardinality(ArchiveDays) = 3
    /\ Len(checked) = 3
    /\ Len(converted) = 2
    /\ HasRecord(checked[2], out0)
    /\ ~HasRecord(checked[1], out0)
    /\ ~HasRecord(checked[3], out0)

\* C5: once process_radar_file has returned or raised, no temp_output.tif is
\* left in the output folder.
C5_TempFileRemovedOnEveryExit ==
    pc # "convert" => ~temp_tif

\* C6: once a download or a conversion has failed for a key, the crawl has
\* stopped: that key is the last one checked, it is not converted, and the
\* records of the keys converted before it, and the files that were there
\* when the crawl started, are still as they were written.
C6_FailureAbortsCrawl ==
    (Crawling /\ failed # NoKey) =>
        /\ pc = "aborted"
        /\ checked # << >>
        /\ failed = checked[Len(checked)]
        /\ failed \notin Range(converted)
        /\ Range(downloaded) \ {failed} = Range(converted)
        /\ \A k \in Range(converted) : RecordOf(k) \in out
        /\ \A f \in out0 : f \in out

C6_Witness ==
    /\ pc = "aborted"
    /\ failed # NoKey
    /\ Len(converted) >= 1
    /\ \E k \in H5Keys : k \notin Range(checked) /\ ~HasRecord(k, out)

C7_NeverConvertsRecordedKey ==
    Crawling =>
        /\ pc \in {"download", "convert"} => ~HasRecord(key, out)
        /\ NoRepeat(downloaded)
        /\ NoRepeat(converted)
        /\ \A k \in Range(converted) : RecordOf(k) \in out
        /\ \A i, j \in 1..Len(converted) :
               i # j => converted[i][4] # converted[j][4]

C7_OutputNeverTouched == \A f \in out : f \in out'

\* C7: no key that has a record under either name is downloaded or
\* converted, a key is converted at most once in a crawl (and so is a base
\* name), and no step changes or removes a file of the output folder.
C7_RecordCreatedOnce ==
    [] C7_NeverConvertsRecordedKey /\ [][C7_OutputNeverTouched]_vars

\* Two keys of different days share a base name; the folder holds a coloured
\* file of another key; the crawl converts one of the two and skips both the
\* other and the key with the coloured file.
C7_Witness ==
    /\ pc = "done"
    /\ ~colour
    /\ Len(converted) = 1
    /\ Len(checked) = 3
    /\ checked[1][4] = checked[2][4]
    /\ \E f \in out0 : f.base = checked[3][4] /\ f.mode = "coloured"

\* C8 as stated: a key the crawl converted is reported as processed, and a
\* second crawl after a first one that completed downloads and converts
\* nothing and leaves the output folder as it was.
C8_SecondRunAsStated ==
    /\ \A k \in Range(converted) : processed_file_exists(k, out)
    /\ (run = "second" /\ prev.result = "done") =>
           /\ downloaded = << >>
           /\ converted = << >>
           /\ out = out0

\* C8 as amended: the same, for a second crawl that does not turn
\* stop_on_catchup off after a first crawl that had it on.
C8_SecondRunIdempotent ==
    /\ \A k \in Range(converted) : processed_file_exists(k, out)
    /\ (run = "second" /\ prev.result = "done"
            /\ ~(prev.stop /\ ~stop_on_catchup)) =>
           /\ downloaded = << >>
           /\ converted = << >>
           /\ out = out0
           /\ pc \notin {"download", "convert", "aborted"}

C8_Witness ==
    /\ run = "second"
    /\ prev.result = "done"
    /\ ~(prev.stop /\ ~stop_on_catchup)
    /\ pc = "done"
    /\ checked # << >>
    /\ \E f \in out : f.by = "first" /\ f.mode # ModeOf(colour)

\* C9: the keys are checked in strictly descending lexical order, so none
\* is checked twice.
C9_CheckedStrictlyDescending ==
    Crawling =>
        \A i, j \in 1..Len(checked) : i < j => LexLess(checked[j], checked[i])

\* Three keys checked across a year boundary and then a month boundary.
C9_Witness ==
    /\ pc = "done"
    /\ Len(checked) = 3
    /\ checked[1][1] # checked[2][1]
    /\ checked[2][1] = checked[3][1]
    /\ checked[2][2] # checked[3][2]

\* C10: every <base>_<mode>.tif in the output folder is the result of a
\* conversion that completed.
C10_RecordOnlyForCompletedConversion ==
    \A f \in out : f.complete

Alpha(c) == rgba[c][4]
MatchingBands(c) == { i \in 1..Len(Bands) : c \in BandMask(Bands[i], data) }

\* C3 as stated: the alpha of a cell is 0 if and only if its value is <= 0.
C3_AlphaZeroIffNonPositive ==
    pc = "classified" =>
        \A c \in DOMAIN data : (Alpha(c) = 0) <=> Le(data[c], 0)

\* C3 as amended: a cell is opaque (alpha 255) if and only if its value is
\* >= 0.01 mm; every other cell (a value below 0.01, among them every value
\* <= 0 and the values between 0 and 0.01, or NaN) is (0,0,0,0).
C3_AlphaZeroIffBelowLowestBand ==
    pc = "classified" =>
        \A c \in DOMAIN data :
            /\ Alpha(c) \in {0, 255}
            /\ (Alpha(c) = 255) <=> Ge(data[c], 10)
            /\ (Alpha(c) = 0) => rgba[c] = <<0, 0, 0, 0>>

C3_Witness ==
    /\ pc = "classified"
    /\ \E c \in DOMAIN data :
          /\ ~data[c].nan /\ data[c].v > 0 /\ data[c].v < 10
          /\ rgba[c] = <<0, 0, 0, 0>>
    /\ \E c \in DOMAIN data : Alpha(c) = 255

\* C4 as stated: every value > 0 matches exactly one band mask and the cell
\* has that band's colour.
C4_EveryPositiveValueInOneBand ==
    pc = "classified" =>
        \A c \in DOMAIN data :
            (~data[c].nan /\ data[c].v > 0) =>
                /\ Cardinality(MatchingBands(c)) = 1
                /\ \A i \in MatchingBands(c) : rgba[c] = Bands[i].rgb \o <<255>>

\* C4 as amended: every value >= 0.01 mm matches exactly one band mask and
\* the cell has that band's colour; a value equal to a threshold is in the
\* band that starts there; a value below 0.01 matches no band.
C4_EveryValueFromLowestBandInOneBand ==
    pc = "classified" =>
        \A c \in DOMAIN data :
            /\ Ge(data[c], 10) =>
                /\ Cardinality(MatchingBands(c)) = 1
                /\ \A i \in MatchingBands(c) : rgba[c] = Bands[i].rgb \o <<255>>
            /\ \A i \in 1..Len(Bands) :
                   (~data[c].nan /\ data[c].v = Bands[i].lo) =>
                       MatchingBands(c) = {i}
            /\ ~Ge(data[c], 10) => MatchingBands(c) = {}

C4_Witness ==
    /\ pc = "classified"
    /\ \E c \in DOMAIN data :
          data[c] = Num(500) /\ rgba[c] = <<50, 101, 254, 255>>
    /\ \E c \in DOMAIN data :
          data[c] = Num(35000) /\ rgba[c] = <<229, 254, 254, 255>>

====
